---- MODULE Spec2Model ----
(***************************************************************************)
(* State-machine model of the media pipeline orchestrator of               *)
(* gst-wpe-broadcast-demo (src/src/pipeline.rs): the Pipeline object, its  *)
(* recording branch (start_recording / stop_recording with the idle-probe  *)
(* teardown and the call_async removals), refresh(), and the bus watch.    *)
(*                                                                         *)
(* Threads.  The control (GTK main) thread runs the Pipeline methods and   *)
(* the bus watch; each of them is one atomic action.  The streaming        *)
(* threads push data through the tee source pads (DataBegin / DataEnd) and *)
(* run an IDLE probe at the end of a push; the call_async closures run on  *)
(* thread-pool threads and are split in two steps (lookup by name, then    *)
(* remove + set_state) because two of them may overlap.                    *)
(***************************************************************************)
EXTENDS Integers, Naturals, Sequences, FiniteSets, TLC

\* ------------------------------------------------------------------ bounds
\* Number of recording bins, each with its two taps, that exist at one time
\* (attached, in teardown, or leaked); the identity of a bin that has been
\* destroyed is used again by a later start_recording.
MaxBins == 2
\* Number of messages that may be posted on the bus in one run.
MaxPosts == 2
\* Number of calls into the framework that may fail in one run while a
\* recording bin is built or torn down (a link, or a state change of the bin).
MaxFaults == 1
\* Tokens in a markup template.
MaxTemplate == 2
\* Most channels a level sample carries.
MaxChannels == 2

\* ------------------------------------------------------------- value sets
None == 0
BinIds == 1..MaxBins
Kinds == {"video", "audio"}
\* Request pads of the two tees handed out to recording bins: <<tee, n>> is
\* the pad requested for recording bin n.
TapIds == Kinds \X BinIds
\* <<tee, 0>> is the pad parse_launch links to the main graph (tee ! queue !
\* gtkglsink, audio-tee ! queue ! level).
MainPad(k) == <<k, 0>>
PadIds == Kinds \X (0..MaxBins)

Resolutions == {"V480P", "V720P", "V1080P"}
\* Settings: the publish destination and the resolution.  The encoder chain
\* is text pasted into the bin description; it acts only through the result
\* of parsing that description.
SettingsValues ==
    [rtmp_location : {"None", "Some"},
     video_resolution : Resolutions]

NoPeer == <<"none", 0>>
MainQueue == <<"main-queue", 0>>
GhostPad(b) == <<"ghost", b>>
QueueSink(b) == <<"queue-sink", b>>

\* A message on the bus: its type, the name of its structure (application and
\* element messages), the path of the element it comes from and its texts.
\* The rms, peak and decay arrays of a structure without any.
NoValues == [rms |-> <<>>, peak |-> <<>>, decay |-> <<>>]

Message(kind, name, src, text, debug) ==
    [kind |-> kind, name |-> name, src |-> src, text |-> text, debug |-> debug,
     values |-> NoValues]

\* The messages the elements of the graph post by themselves.
EnvMessages ==
    {Message("error", "", "/pipeline/videosrc", "Device is busy", "v4l2 open"),
     Message("error", "", "/pipeline/rtmpsink", "Could not connect", "rtmp handshake"),
     Message("element", "level", "/pipeline/level", "", ""),
     Message("state_changed", "", "/pipeline", "", "")}

\* A GValue holding a double.
F64Value(x) == [type |-> "f64", f64 |-> x]

\* The levels, in dB, the rms of a channel takes.
Db == {-60, -20}

\* The structure of a message of the level element for the rms levels given,
\* one per channel: three arrays of doubles of that length, the peak above
\* the rms and the decaying peak above the peak.
LevelStructure(rms) ==
    [rms |-> [i \in 1..Len(rms) |-> F64Value(rms[i])],
     peak |-> [i \in 1..Len(rms) |-> F64Value(rms[i] + 10)],
     decay |-> [i \in 1..Len(rms) |-> F64Value(rms[i] + 15)]]

LevelMessage(v) ==
    [Message("element", "level", "/pipeline/level", "", "") EXCEPT !.values = v]

\* The messages the level element posts, for up to MaxChannels channels.
LevelMessages ==
    {LevelMessage(LevelStructure(r)) :
       r \in UNION {[1..n -> Db] : n \in 0..MaxChannels}}

\* Messages of the graph on_pipeline_message has no use for: state changes of
\* the pipeline and of an element in it, the pipeline's async-done (a bin
\* keeps the async-done of its children to itself), an application message
\* that is no "warning", an element message that is no "level" (with
\* message-forward set, what a bin would filter arrives this way), and
\* messages of another type.
IgnoredMessages ==
    {Message("state_changed", "", "/pipeline", "", ""),
     Message("state_changed", "", "/pipeline/videosrc", "", ""),
     Message("async_done", "", "/pipeline", "", ""),
     Message("application", "other", "", "", ""),
     Message("element", "GstBinForwarded", "/pipeline", "", ""),
     Message("eos", "", "/pipeline", "", "")}

\* element.downcast_ref::<gst::Bin>(): the pipeline is a bin, the elements
\* of the parse_launch description are not.
IsBin(src) == src = "/pipeline"

\* The graph snapshots on_pipeline_message writes: one for a state change of
\* the pipeline itself, one for an async-done.
Snapshots(msg) ==
    CASE msg.kind = "state_changed" /\ msg.src = "/pipeline" ->
           <<<<"debug_to_dot_file", "state_changed">>>>
      [] msg.kind = "async_done" -> <<<<"debug_to_dot_file", "async-done">>>>
      [] OTHER -> <<>>

\* The unwrap() of the downcast in the async-done branch fails.
HandlerPanics(msg) == msg.kind = "async_done" /\ ~IsBin(msg.src)

\* The thread a message of the graph is posted from: state changes are posted
\* inside set_state, on the thread that calls it; errors and level samples
\* come from the streaming threads.
PosterOf(msg) == IF msg.kind = "state_changed" THEN "control" ELSE "worker"

\* A call into the user interface: utils::show_error_dialog(fatal, text) or
\* vumeter.update(..).
ShowErrorDialog(fatal, text) ==
    [call |-> "show_error_dialog", fatal |-> fatal, text |-> text]
VumeterUpdate ==
    [call |-> "vumeter_update", fatal |-> FALSE, text |-> <<>>,
     values |-> <<<<>>, <<>>, <<>>>>]

\* vumeter.update(&rms_values, &peak_values, &decay_values)
VumeterUpdateWith(rms, peak, decay) ==
    [VumeterUpdate EXCEPT !.values = <<rms, peak, decay>>]

\* AudioVuMeter::new(): the level display, with no sample stored.
AudioVuMeterNew == [alive |-> TRUE, data |-> <<>>]

\* Variant: update stores the decay values as peak and the peak values as decay.
AudioVuMeterUpdate_Swapped(vu, rms, peak, decay) ==
    [vu EXCEPT !.data = <<[rms |-> rms, peak |-> decay, decay |-> peak]>>]

\* AudioVuMeter::update(rms, peak, decay): data = Some(LevelData {..}).
AudioVuMeterUpdate(vu, rms, peak, decay) ==
    [vu EXCEPT !.data = <<[rms |-> rms, peak |-> peak, decay |-> decay]>>]

\* v.get_some::<f64>().unwrap()
GetSomeF64(v) == v.f64

\* array.iter().map(|v| v.get_some::<f64>().unwrap()).collect::<Vec<_>>()
CollectF64(arr) == [i \in 1..Len(arr) |-> GetSomeF64(arr[i])]

VARIABLES
    settings,             \* the stored settings utils::load_settings() returns
    proc,                 \* "running", "panicked" or "shutdown"
    pipeState,            \* run state of the top-level gst::Pipeline
    camcaps, wpecaps, mixerSink1,   \* <<width, height>> of the three parameters
    recording_bin,        \* PipelineInner.recording_bin: None or a bin id
    recording_video_pad,  \* PipelineInner.recording_video_pad: None or n of <<"video", n>>
    recording_audio_pad,  \* PipelineInner.recording_audio_pad: None or n of <<"audio", n>>
    lastBin,              \* the bin the latest start_recording built (None: none yet)
    children,             \* recording bins that are members of the pipeline
    binState,             \* run state of each recording bin ("none": not built)
    pads,                 \* tee source pads: status, peer, busy, probe, releases
    tasks,                \* call_async closures, by the tap whose probe queued them
    bus,                  \* messages posted on the pipeline's bus, not yet dispatched
    posted,               \* number of messages posted so far
    faults,               \* number of failed links and bin state changes so far
    op, res,              \* the operation that produced this state and its result
    thread,               \* the thread that operation ran on
    ui,                   \* the calls into the user interface that operation made
    steps,                \* the calls into the graph that operation made, in order
    html_buffer,          \* App.html_buffer: the markup template of the overlay
    css_buffer,           \* App.css_buffer: the stylesheet of the overlay
    document,             \* the document last loaded into the web renderer (wpesrc)
    record_button,        \* HeaderBar.record: the record toggle is active
    record_action,        \* the stored state of the "record" action
    audio_vumeter,        \* the AudioVuMeter: alive or dropped, and its data
    handlers              \* the application signals on_startup connected a handler to

vars == <<settings, proc, pipeState, camcaps, wpecaps, mixerSink1, recording_bin,
          recording_video_pad, recording_audio_pad, lastBin, children, binState,
          pads, tasks, bus, posted, faults, op, res, thread, ui, steps, html_buffer,
          css_buffer, document, record_button, record_action, audio_vumeter,
          handlers>>

\* The part of the state start_recording / stop_recording and the teardown act on.
graphVars == <<recording_bin, recording_video_pad, recording_audio_pad, lastBin,
               children, binState, pads, tasks>>
capsVars == <<camcaps, wpecaps, mixerSink1>>
\* The overlay texts the application holds, and the state of its widgets.
overlayText == <<html_buffer, css_buffer>>
appVars == <<html_buffer, css_buffer, document, record_button, record_action,
             audio_vumeter, handlers>>
busVars == <<bus, posted>>
\* What the control operations outside the recording branch leave alone.
recVars == <<graphVars, faults>>

\* ----------------------------------------------------------------- settings
\* Variant: the settings are a value fixed when the program is built.
LoadSettings_Fixed ==
    [rtmp_location |-> "Some", video_resolution |-> "V720P"]

\* utils::load_settings(): the stored value, read afresh at every call.
LoadSettings == settings

\* Variant: Pipeline::new takes height for width.
ResolveNew_Transposed(r) ==
    CASE r = "V480P" -> <<480, 640>>
      [] r = "V720P" -> <<720, 1280>>
      [] r = "V1080P" -> <<1080, 1920>>

\* The resolution match of Pipeline::new.
ResolveNew(r) ==
    CASE r = "V480P" -> <<640, 480>>
      [] r = "V720P" -> <<1280, 720>>
      [] r = "V1080P" -> <<1920, 1080>>

\* Variant: refresh resolves every resolution as Pipeline::new resolves the
\* default one.
ResolveRefresh_Default(r) == <<1280, 720>>

\* The resolution match of Pipeline::refresh.
ResolveRefresh(r) ==
    CASE r = "V480P" -> <<640, 480>>
      [] r = "V720P" -> <<1280, 720>>
      [] r = "V1080P" -> <<1920, 1080>>

\* Variant: the destination check is skipped.
HasPublishDestination_Skipped(s) == TRUE

\* settings.rtmp_location.is_none() is false.
HasPublishDestination(s) == s.rtmp_location # "None"


\* ------------------------------------------------------- graph primitives
NewPad == [status |-> "none", peer |-> NoPeer, busy |-> FALSE, probe |-> None,
           releases |-> 0]

\* tee.get_request_pad("src_%u"): a fresh, unlinked source pad owned by the tee.
RequestPad(ps, p) == [ps EXCEPT ![p].status = "requested"]

\* srcpad.link(&ghost_pad), when it succeeds.
PadLink(ps, p, sink) == [ps EXCEPT ![p].peer = sink]

\* srcpad.unlink(&sinkpad): unlinks only if sinkpad is the peer of srcpad,
\* otherwise fails and changes nothing (the result is dropped by the caller).
PadUnlink(ps, p, sink) ==
    IF ps[p].peer = sink THEN [ps EXCEPT ![p].peer = NoPeer] ELSE ps

\* tee.release_request_pad(srcpad): the tee removes the pad; removing a pad
\* unlinks it from whatever peer it still has.
ReleaseRequestPad(ps, p) ==
    [ps EXCEPT ![p].peer = NoPeer,
               ![p].status = "released",
               ![p].releases = IF @ < 2 THEN @ + 1 ELSE @]

\* pipeline.add(&bin) fails when a child of the same name ("recording-bin")
\* is already in the pipeline.
CanAdd(ch) == ch = {}

\* pipeline.remove(&bin): fails (and is ignored) when bin is no child of the
\* pipeline; otherwise the bin leaves the pipeline and its pads are unlinked.
BinRemove(g, b) ==
    IF b \in g.children
    THEN [g EXCEPT !.children = @ \ {b},
                   !.pads = [p \in PadIds |->
                               IF g.pads[p].peer = GhostPad(b)
                               THEN [g.pads[p] EXCEPT !.peer = NoPeer]
                               ELSE g.pads[p]]]
    ELSE g

\* pipeline.get_by_name("recording-bin")
RecordingBinByName(ch) == IF ch = {} THEN None ELSE CHOOSE b \in ch : TRUE

\* A state change of the whole pipeline is applied to every child.
ChildrenTo(bs, ch, st) == [b \in BinIds |-> IF b \in ch THEN st ELSE bs[b]]

\* Variant: a transition to Null can fail for a bin that is in Null already.
BinSetStateNullFailed_Any(bs, b, ok) == ~ok

\* bin.set_state(gst::State::Null): nothing to do for a bin that is in Null;
\* otherwise the transition succeeds (ok) or fails and leaves the state as it was.
BinSetStateNull(bs, b, ok) ==
    IF bs[b] = "Null" \/ ok THEN [bs EXCEPT ![b] = "Null"] ELSE bs

BinSetStateNullFailed(bs, b, ok) == bs[b] # "Null" /\ ~ok

\* ------------------------------------------------------- end of the process
InitPads ==
    [p \in PadIds |->
       IF p[2] = 0
       THEN [NewPad EXCEPT !.status = "requested", !.peer = MainQueue]
       ELSE NewPad]

NoTask == [pc |-> "none", bin |-> None]

\* The web renderer has loaded nothing.
NoDocument == <<"no document">>

\* The process ends, by a panic (an expect() or unwrap() that fails) or by
\* the application shutting down: the Pipeline, its graph and its bus no
\* longer exist.  Only the settings file outlives the process.
Ended(how, o, r) ==
    /\ proc' = how
    /\ op' = o /\ res' = r
    /\ pipeState' = "Null"
    /\ recording_bin' = None
    /\ recording_video_pad' = None
    /\ recording_audio_pad' = None
    /\ lastBin' = None
    /\ children' = {}
    /\ binState' = [b \in BinIds |-> "none"]
    /\ pads' = InitPads
    /\ tasks' = [p \in TapIds |-> NoTask]
    /\ bus' = <<>>
    /\ posted' = 0
    /\ faults' = 0
    /\ thread' = "control" /\ ui' = <<>> /\ steps' = <<>>
    /\ document' = NoDocument
    /\ record_button' = FALSE
    /\ record_action' = FALSE
    /\ audio_vumeter' = [alive |-> FALSE, data |-> <<>>]
    /\ handlers' = {}
    /\ UNCHANGED capsVars

\* --------------------------------------------------------- start_recording
\* The graph part of the state, as a record the steps of a method transform.
Graph ==
    [recording_bin |-> recording_bin,
     recording_video_pad |-> recording_video_pad,
     recording_audio_pad |-> recording_audio_pad,
     lastBin |-> lastBin, children |-> children, binState |-> binState,
     pads |-> pads, tasks |-> tasks, res |-> "Ok", steps |-> <<>>]

\* No reference to bin b or to its taps is left: it is no child of the
\* pipeline, it is stopped (an element that is not in Null is kept alive),
\* no slot holds it or a tap of it, its taps are not held by a tee, and no
\* probe or queued closure will act on them.
BinDead(g, b) ==
    /\ b \notin g.children
    /\ g.recording_bin # b
    /\ g.recording_video_pad # b
    /\ g.recording_audio_pad # b
    /\ g.binState[b] \in {"none", "Null"}
    /\ \A k \in Kinds :
         /\ g.pads[<<k, b>>].status \in {"none", "released"}
         /\ g.pads[<<k, b>>].probe = None
         /\ ~g.pads[<<k, b>>].busy
         /\ g.tasks[<<k, b>>].pc = "none"
    /\ \A p \in TapIds : g.tasks[p].bin # b

FreeBins(g) == {b \in BinIds : BinDead(g, b)}

\* The identity given to the bin parse_bin_from_description builds.
NewBin(g) == CHOOSE b \in FreeBins(g) : \A c \in FreeBins(g) : b <= c

\* The error path of a failed link: "we just undo what we did above".
LinkRollback(g, b, err) ==
    LET g1 == BinRemove(g, b)
    IN [g1 EXCEPT !.binState = BinSetStateNull(@, b, TRUE), !.res = err]

\* Lines 254-277: request the video tap, store it, link it to the bin.
AttachVideo(g, b, linkOk) ==
    LET p == <<"video", b>>
        g1 == [g EXCEPT !.pads = RequestPad(@, p), !.recording_video_pad = b]
    IN IF linkOk
       THEN [g1 EXCEPT !.pads = PadLink(@, p, GhostPad(b))]
       ELSE LinkRollback(g1, b, "ErrLinkVideo")

\* Variant: the audio tap is requested and linked but not stored in its slot.
AttachAudio_NotStored(g, b, linkOk) ==
    LET p == <<"audio", b>>
        g1 == [g EXCEPT !.pads = RequestPad(@, p)]
    IN IF linkOk
       THEN [g1 EXCEPT !.pads = PadLink(@, p, GhostPad(b))]
       ELSE LinkRollback(g1, b, "ErrLinkAudio")

\* Lines 279-301: request the audio tap, store it, link it to the bin.
AttachAudio(g, b, linkOk) ==
    LET p == <<"audio", b>>
        g1 == [g EXCEPT !.pads = RequestPad(@, p), !.recording_audio_pad = b]
    IN IF linkOk
       THEN [g1 EXCEPT !.pads = PadLink(@, p, GhostPad(b))]
       ELSE LinkRollback(g1, b, "ErrLinkAudio")

\* Lines 303-306: bin.set_state(Playing), then store the bin in its slot.  A
\* failed transition leaves the bin in the state it reached (Null or Ready).
RunAndStore(g, b, playOk, reached) ==
    IF playOk
    THEN [g EXCEPT !.binState[b] = "Playing", !.recording_bin = b]
    ELSE [g EXCEPT !.binState[b] = reached, !.res = "ErrState"]

\* Pipeline::start_recording as a function of the state and of the results
\* the framework returns (parse of the bin description, link of each tap,
\* the bin's transition to Playing).
StartRecordingResult(g, s, parseOk, linkV, linkA, playOk, reached) ==
    IF ~HasPublishDestination(s) THEN [g EXCEPT !.res = "ErrConfig"]
    ELSE IF ~parseOk THEN [g EXCEPT !.res = "ErrParse"]
    ELSE LET b == NewBin(g)
             g0 == [g EXCEPT !.lastBin = b, !.binState[b] = "Null",
                             !.pads[<<"video", b>>] = NewPad,
                             !.pads[<<"audio", b>>] = NewPad]
         IN IF ~CanAdd(g.children) THEN [g0 EXCEPT !.res = "Panic"]
            ELSE LET g1 == [g0 EXCEPT !.children = @ \cup {b}]
                     g2 == AttachVideo(g1, b, linkV)
                 IN IF g2.res # "Ok" THEN g2
                    ELSE LET g3 == AttachAudio(g2, b, linkA)
                         IN IF g3.res # "Ok" THEN g3
                            ELSE RunAndStore(g3, b, playOk, reached)

\* Writes a transformed graph record back to the variables.
SetGraph(g) ==
    /\ recording_bin' = g.recording_bin
    /\ recording_video_pad' = g.recording_video_pad
    /\ recording_audio_pad' = g.recording_audio_pad
    /\ lastBin' = g.lastBin
    /\ children' = g.children
    /\ binState' = g.binState
    /\ pads' = g.pads
    /\ tasks' = g.tasks
    /\ steps' = g.steps

\* What the framework may answer during one start_recording: the first
\* step that fails, if any (later answers are then never asked for).
FrameworkAnswers ==
    {[parseOk |-> FALSE, linkV |-> TRUE, linkA |-> TRUE, playOk |-> TRUE, reached |-> "Null"],
     [parseOk |-> TRUE, linkV |-> FALSE, linkA |-> TRUE, playOk |-> TRUE, reached |-> "Null"],
     [parseOk |-> TRUE, linkV |-> TRUE, linkA |-> FALSE, playOk |-> TRUE, reached |-> "Null"],
     [parseOk |-> TRUE, linkV |-> TRUE, linkA |-> TRUE, playOk |-> FALSE, reached |-> "Null"],
     [parseOk |-> TRUE, linkV |-> TRUE, linkA |-> TRUE, playOk |-> FALSE, reached |-> "Ready"],
     [parseOk |-> TRUE, linkV |-> TRUE, linkA |-> TRUE, playOk |-> TRUE, reached |-> "Null"]}

StartRecording ==
    /\ proc = "running"
    /\ LET s == LoadSettings
       IN \E a \in FrameworkAnswers :
          /\ (HasPublishDestination(s) /\ a.parseOk) => FreeBins(Graph) # {}
          /\ \E g \in {StartRecordingResult(Graph, s, a.parseOk, a.linkV, a.linkA,
                                            a.playOk, a.reached)} :
            LET failed == g.res \in {"ErrLinkVideo", "ErrLinkAudio", "ErrState"}
            IN /\ failed => faults < MaxFaults
               /\ IF g.res = "Panic"
                  THEN Ended("panicked", "start_recording", "Panic")
                       /\ UNCHANGED <<settings, overlayText>>
                  ELSE /\ SetGraph(g)
                       /\ faults' = IF failed THEN faults + 1 ELSE faults
                       /\ res' = g.res
                       /\ op' = "start_recording" /\ thread' = "control" /\ ui' = <<>>
                       /\ UNCHANGED appVars
                       /\ UNCHANGED <<settings, proc, pipeState, capsVars, busVars>>

\* ---------------------------------------------------------- stop_recording

\* Variant: the closure is dropped instead of being queued.
CallAsync_Dropped(ts, p) == ts

\* pipeline.call_async(closure): the closure is queued on the thread pool.
CallAsync(ts, p) == [ts EXCEPT ![p] = [pc |-> "queued", bin |-> None]]

\* A call of the idle callback of tap p is recorded with the peer the tap has
\* when the call is made.
OnTap(ps, call, p) == <<call, p, ps[p].peer>>

\* Variant: the closure unlinks and queues the removal but does not hand the
\* pad back to the tee.
IdleCallback_NoRelease(g, p, sinkBin) ==
    IF g.pads[p].status = "requested"
    THEN [g EXCEPT !.pads = [PadUnlink(@, p, QueueSink(sinkBin)) EXCEPT ![p].probe = None],
                   !.tasks = CallAsync(@, p)]
    ELSE [g EXCEPT !.pads[p].probe = sinkBin]

\* Variant: the closure does its work and returns Ok, so that the probe stays
\* installed.
IdleCallback_Kept(g, p, sinkBin) ==
    [g EXCEPT !.pads = [ReleaseRequestPad(@, p) EXCEPT ![p].probe = sinkBin],
              !.tasks = CallAsync(@, p),
              !.steps = @ \o <<OnTap(g.pads, "unlink", p),
                               OnTap(g.pads, "release_request_pad", p),
                               OnTap(ReleaseRequestPad(g.pads, p), "call_async", p)>>]

\* The closure given to add_probe(IDLE), run for pad p; sinkBin is the bin
\* whose queue sink pad the closure captured.  With a parent (the tee) it
\* unlinks, releases the pad, queues the removal and returns Remove; without
\* one it returns Ok and stays installed.
IdleCallback(g, p, sinkBin) ==
    IF g.pads[p].status = "requested"
    THEN LET ps0 == g.pads
             ps1 == PadUnlink(ps0, p, QueueSink(sinkBin))
             ps2 == ReleaseRequestPad(ps1, p)
         IN [g EXCEPT !.pads = [ps2 EXCEPT ![p].probe = None],
                      !.tasks = CallAsync(@, p),
                      !.steps = @ \o <<OnTap(ps0, "unlink", p),
                                       OnTap(ps1, "release_request_pad", p),
                                       OnTap(ps2, "call_async", p)>>]
    ELSE [g EXCEPT !.pads[p].probe = sinkBin]

\* Variant: add_probe waits for the end of the push and runs the closure.
AddIdleProbe_Blocking(g, p, sinkBin) ==
    IdleCallback([g EXCEPT !.pads[p].busy = FALSE], p, sinkBin)

\* srcpad.add_probe(IDLE, closure): the closure runs at once, on the calling
\* thread, when no data is in transit through the pad; otherwise it is
\* installed and runs on the streaming thread when the current push ends.
AddIdleProbe(g, p, sinkBin) ==
    IF g.pads[p].busy
    THEN [g EXCEPT !.pads[p].probe = sinkBin]
    ELSE IdleCallback(g, p, sinkBin)

\* Variant: the tap slots are emptied before the bin slot is looked at.
StopRecordingResult_TapsFirst(g) ==
    LET g1 == [g EXCEPT !.recording_audio_pad = None, !.recording_video_pad = None]
    IN IF g.recording_bin = None \/ g.recording_audio_pad = None
          \/ g.recording_video_pad = None
       THEN [g1 EXCEPT !.recording_bin = None,
                       !.res = IF g.recording_bin = None THEN "Noop" ELSE "EarlyReturn"]
       ELSE LET g2 == [g1 EXCEPT !.recording_bin = None]
                g3 == AddIdleProbe(g2, <<"video", g.recording_video_pad>>, g.recording_bin)
            IN AddIdleProbe(g3, <<"audio", g.recording_audio_pad>>, g.recording_bin)

\* Pipeline::stop_recording: the three take() calls with their early returns,
\* then the video probe, then the audio probe.
StopRecordingResult(g) ==
    IF g.recording_bin = None THEN [g EXCEPT !.res = "Noop"]
    ELSE LET bin == g.recording_bin
             g1 == [g EXCEPT !.recording_bin = None]
         IN IF g1.recording_audio_pad = None THEN [g1 EXCEPT !.res = "EarlyReturn"]
            ELSE LET ap == <<"audio", g1.recording_audio_pad>>
                     g2 == [g1 EXCEPT !.recording_audio_pad = None]
                 IN IF g2.recording_video_pad = None
                    THEN [g2 EXCEPT !.res = "EarlyReturn"]
                    ELSE LET vp == <<"video", g2.recording_video_pad>>
                             g3 == [g2 EXCEPT !.recording_video_pad = None]
                             g4 == AddIdleProbe(g3, vp, bin)
                         IN AddIdleProbe(g4, ap, bin)

StopRecording ==
    /\ proc = "running"
    /\ \E g \in {StopRecordingResult(Graph)} : SetGraph(g) /\ res' = g.res
    /\ op' = "stop_recording" /\ thread' = "control" /\ ui' = <<>>
    /\ UNCHANGED appVars
    /\ UNCHANGED <<settings, proc, pipeState, capsVars, busVars, faults>>

\* ------------------------------------------------------- streaming threads
\* A streaming thread starts pushing a data unit through a tap of a tee into
\* the recording bin the tap is linked to.
DataBegin(p) ==
    /\ proc = "running"
    /\ pipeState = "Playing"
    /\ pads[p].status = "requested"
    /\ pads[p].peer # NoPeer
    /\ ~pads[p].busy
    /\ pads' = [pads EXCEPT ![p].busy = TRUE]
    /\ op' = "data_begin" /\ res' = "Ok" /\ thread' = "worker" /\ ui' = <<>>
    /\ steps' = <<>>
    /\ UNCHANGED appVars
    /\ UNCHANGED <<settings, proc, pipeState, capsVars, busVars, recording_bin,
                   recording_video_pad, recording_audio_pad, lastBin, children,
                   binState, tasks, faults>>

\* The push ends; the pad is idle and an installed IDLE probe runs here, on
\* the streaming thread.
DataEnd(p) ==
    /\ proc = "running"
    /\ pads[p].busy
    /\ \E g0 \in {[Graph EXCEPT !.pads[p].busy = FALSE]} :
       \E g \in {IF pads[p].probe # None
                 THEN IdleCallback(g0, p, pads[p].probe)
                 ELSE g0} :
         SetGraph(g)
    /\ op' = "data_end" /\ thread' = "worker" /\ ui' = <<>>
    /\ UNCHANGED appVars
    /\ res' = IF pads[p].probe # None THEN "IdleProbe" ELSE "Ok"
    /\ UNCHANGED <<settings, proc, pipeState, capsVars, busVars, faults>>

\* ------------------------------------------------------- deferred removals
\* bus.post(message) by a thread.
BusPostMsg(q, msg) == Append(q, msg)

\* Pipeline::create_application_warning_message(text)
CreateApplicationWarningMessage(text) ==
    Message("application", "warning", "", text, "")

\* Variant: the closure shows the failure itself instead of posting it.
RemovalCalls_Direct(failed, text) ==
    IF failed THEN <<ShowErrorDialog(FALSE, <<text>>)>> ELSE <<>>

\* The calls into the user interface the call_async closure makes: none,
\* whatever the result of the transition.
RemovalCalls(failed, text) == <<>>

\* format!("Failed to stop recording: {}", err)
StopFailedText == "Failed to stop recording: StateChangeError"

\* First step of the call_async closure queued by the probe of tap p:
\* pipeline.get_by_name("recording-bin"), and return if there is none.
TaskLookup(p) ==
    /\ proc = "running"
    /\ tasks[p].pc = "queued"
    /\ LET b == RecordingBinByName(children)
       IN tasks' = [tasks EXCEPT ![p] = IF b = None
                                        THEN NoTask
                                        ELSE [pc |-> "found", bin |-> b]]
    /\ op' = "task_lookup" /\ res' = "Ok" /\ thread' = "worker" /\ ui' = <<>>
    /\ steps' = <<>>
    /\ UNCHANGED appVars
    /\ UNCHANGED <<settings, proc, pipeState, capsVars, busVars, recording_bin,
                   recording_video_pad, recording_audio_pad, lastBin, children,
                   binState, pads, faults>>

\* A call of the call_async closure on bin b is recorded with what the bin is
\* when the call is made: a child of the pipeline or not, and its state.
OnBin(g, call, b) == <<call, <<"bin", b>>, <<b \in g.children, g.binState[b]>>>>

\* Variant: the bin is removed but never stopped.
RemoveAndStop_NoStop(g, b, ok) == BinRemove(g, b)

\* Variant: the closure also empties the bin slot when it holds the bin.
RemoveAndStop_ClearsSlot(g, b, ok) ==
    LET g1 == BinRemove(g, b)
    IN [g1 EXCEPT !.binState = BinSetStateNull(@, b, ok),
                  !.recording_bin = IF @ = b THEN None ELSE @,
                  !.steps = @ \o <<OnBin(g, "remove", b), OnBin(g1, "set_state_null", b)>>]

\* The removal proper: pbin.remove(&bin), bin.set_state(Null), with ok the
\* result of the transition.
RemoveAndStop(g, b, ok) ==
    LET g1 == BinRemove(g, b)
    IN [g1 EXCEPT !.binState = BinSetStateNull(@, b, ok),
                  !.steps = @ \o <<OnBin(g, "remove", b), OnBin(g1, "set_state_null", b)>>]

\* Second step of the closure: remove the bin found and stop it; a failed
\* transition is posted on the bus as an application "warning" message.
TaskRemove(p) ==
    /\ proc = "running"
    /\ tasks[p].pc = "found"
    /\ \E ok \in BOOLEAN :
         LET b == tasks[p].bin
             failed == BinSetStateNullFailed(binState, b, ok)
         IN /\ failed => (posted < MaxPosts /\ faults < MaxFaults)
            /\ \E g \in {RemoveAndStop(Graph, b, ok)} :
                 \E h \in {[g EXCEPT !.tasks[p] = NoTask]} : SetGraph(h)
            /\ bus' = IF failed
                      THEN BusPostMsg(bus, CreateApplicationWarningMessage(StopFailedText))
                      ELSE bus
            /\ posted' = IF failed THEN posted + 1 ELSE posted
            /\ faults' = IF failed THEN faults + 1 ELSE faults
            /\ res' = IF failed THEN "StopFailed" ELSE "Ok"
            /\ ui' = RemovalCalls(failed, StopFailedText)
    /\ op' = "task_remove" /\ thread' = "worker"
    /\ UNCHANGED appVars
    /\ UNCHANGED <<settings, proc, pipeState, capsVars>>

\* --------------------------------------------------------------- the bus
\* An element of the graph posts a message, from the control thread (inside
\* a set_state call) or from one of the graph's own threads.
BusPost(msg) ==
    /\ proc = "running"
    /\ posted < MaxPosts
    /\ bus' = BusPostMsg(bus, msg)
    /\ posted' = posted + 1
    /\ op' = "bus_post" /\ res' = "Ok" /\ thread' = PosterOf(msg) /\ ui' = <<>>
    /\ steps' = <<>>
    /\ UNCHANGED appVars
    /\ UNCHANGED <<settings, proc, pipeState, capsVars, recVars>>

\* Variant: the handler runs on the thread that posted the message.
WatchThread_Poster(from) == from

\* bus.add_watch_local: the watch is attached to the main context of the
\* thread that constructs the Pipeline, whatever thread posted the message.
WatchThread(from) == "control"

\* The "level" branch of on_pipeline_message: the three arrays are read from
\* the structure and converted, then the weak reference to the level display
\* is upgraded; if the display is gone the handler returns.
LevelCalls(msg) ==
    IF audio_vumeter.alive
    THEN <<VumeterUpdateWith(CollectF64(msg.values.rms),
                             CollectF64(msg.values.peak),
                             CollectF64(msg.values.decay))>>
    ELSE <<>>

\* Variant: an error is shown as a non-fatal notice, without its debug detail.
OnPipelineMessage_ErrorNotice(msg) ==
    CASE msg.kind = "error" ->
           <<ShowErrorDialog(FALSE, <<msg.src, msg.text>>)>>
      [] msg.kind = "application" /\ msg.name = "warning" ->
           <<ShowErrorDialog(FALSE, <<msg.text>>)>>
      [] msg.kind = "element" /\ msg.name = "level" -> LevelCalls(msg)
      [] OTHER -> <<>>

\* Variant: every application message is shown, whatever its name.
OnPipelineMessage_AnyApplication(msg) ==
    CASE msg.kind = "error" ->
           <<ShowErrorDialog(TRUE, <<msg.src, msg.text, msg.debug>>)>>
      [] msg.kind = "application" -> <<ShowErrorDialog(FALSE, <<msg.text>>)>>
      [] msg.kind = "element" /\ msg.name = "level" -> LevelCalls(msg)
      [] OTHER -> <<>>

\* Variant: an application "warning" is shown as a fatal error.
OnPipelineMessage_WarningFatal(msg) ==
    CASE msg.kind = "error" ->
           <<ShowErrorDialog(TRUE, <<msg.src, msg.text, msg.debug>>)>>
      [] msg.kind = "application" /\ msg.name = "warning" ->
           <<ShowErrorDialog(TRUE, <<msg.text>>)>>
      [] msg.kind = "element" /\ msg.name = "level" -> LevelCalls(msg)
      [] OTHER -> <<>>

\* Pipeline::on_pipeline_message, as the calls it makes to the user
\* interface: show_error_dialog(true, ..) with the source path, the error and
\* the debug detail of an error message; show_error_dialog(false, text) for an
\* application message named "warning"; vumeter.update(..) for an element
\* message named "level"; none for any other message.
OnPipelineMessage(msg) ==
    CASE msg.kind = "error" ->
           <<ShowErrorDialog(TRUE, <<msg.src, msg.text, msg.debug>>)>>
      [] msg.kind = "application" /\ msg.name = "warning" ->
           <<ShowErrorDialog(FALSE, <<msg.text>>)>>
      [] msg.kind = "element" /\ msg.name = "level" -> LevelCalls(msg)
      [] OTHER -> <<>>

\* The first call of a handler, as the result label of its step.
CallLabel(calls) ==
    IF calls = <<>> THEN "Ignored"
    ELSE IF calls[1].call = "vumeter_update" THEN "LevelUpdate"
    ELSE IF calls[1].fatal THEN "FatalDialog" ELSE "NonFatalDialog"

\* The level display after the calls a handler made.
Delivered(vu, calls) ==
    IF calls # <<>> /\ calls[1].call = "vumeter_update"
    THEN AudioVuMeterUpdate(vu, calls[1].values[1], calls[1].values[2],
                            calls[1].values[3])
    ELSE vu

\* The bus watch delivers the oldest message to on_pipeline_message.
BusDispatch ==
    /\ proc = "running"
    /\ bus # <<>>
    /\ IF HandlerPanics(Head(bus))
       THEN Ended("panicked", "bus_dispatch", "Panic")
            /\ UNCHANGED <<settings, overlayText>>
       ELSE /\ ui' = OnPipelineMessage(Head(bus))
            /\ steps' = Snapshots(Head(bus))
            /\ res' = CallLabel(OnPipelineMessage(Head(bus)))
            /\ thread' = WatchThread(PosterOf(Head(bus)))
            /\ bus' = Tail(bus)
            /\ op' = "bus_dispatch"
            /\ audio_vumeter' = Delivered(audio_vumeter, OnPipelineMessage(Head(bus)))
            /\ UNCHANGED <<html_buffer, css_buffer, document, record_button,
                           record_action, handlers>>
            /\ UNCHANGED <<settings, proc, pipeState, capsVars, recVars, posted>>

\* ------------------------------------------------ whole-pipeline operations
\* Variant: a request for the state the pipeline is in takes it through
\* Ready again and leaves it there.
PipelineSetState_Restarts(m, st, ok) ==
    IF ok
    THEN [m EXCEPT !.pipeState = IF @ = st THEN "Ready" ELSE st,
                   !.binState = ChildrenTo(@, children, st)]
    ELSE m

\* pipeline.set_state(st) on the top-level pipeline: on success the pipeline
\* and all its children are in st; on failure nothing changes.
PipelineSetState(m, st, ok) ==
    IF ok
    THEN [m EXCEPT !.pipeState = st,
                   !.binState = ChildrenTo(@, children, st)]
    ELSE m

\* A call into the graph is recorded with the run state the top-level
\* pipeline is in when the call is made.
InState(m, call) == [m EXCEPT !.steps = Append(@, <<call, m.pipeState>>)]

\* self.sink.send_event(gst::Event::new_reconfigure()): changes no parameter
\* and no run state.
SendReconfigure(m) == InState(m, "send_reconfigure")

\* Lines 162-177 of refresh: the two caps filters and the mixer pad.
ApplyResolution(m, wh) ==
    [m EXCEPT !.camcaps = wh, !.wpecaps = wh, !.mixerSink1 = wh]

\* Pipeline::refresh with the results of its two set_state calls; each
\* result is unwrap()ped, so a failed transition panics.
RefreshResult(m, s, pauseOk, playOk) ==
    LET m1 == ApplyResolution(InState(m, "set_caps"),
                              ResolveRefresh(s.video_resolution))
        m2 == PipelineSetState(InState(m1, "set_state_paused"), "Paused", pauseOk)
    IN IF ~pauseOk THEN [m2 EXCEPT !.res = "Panic"]
       ELSE LET m3 == SendReconfigure(m2)
                m4 == PipelineSetState(InState(m3, "set_state_playing"),
                                       "Playing", playOk)
            IN IF ~playOk THEN [m4 EXCEPT !.res = "Panic"] ELSE m4

Main ==
    [pipeState |-> pipeState, binState |-> binState, camcaps |-> camcaps,
     wpecaps |-> wpecaps, mixerSink1 |-> mixerSink1, res |-> "Ok",
     steps |-> <<>>]

\* Variant: the pause in refresh cancels the removals queued on the pool.
RefreshFrame_Cancels ==
    /\ tasks' = [p \in TapIds |-> NoTask]
    /\ UNCHANGED <<recording_bin, recording_video_pad, recording_audio_pad,
                   children, pads, document>>

\* Variant: refresh loads an empty page into the web renderer.
RefreshFrame_Reloads ==
    /\ document' = NoDocument
    /\ UNCHANGED <<recording_bin, recording_video_pad, recording_audio_pad,
                   children, pads, tasks>>

\* What refresh has no statement for: the three slots, the children of the
\* pipeline, the taps with their probes, the closures queued on the pool,
\* the document loaded into the web renderer.
RefreshFrame ==
    UNCHANGED <<recording_bin, recording_video_pad, recording_audio_pad,
                children, pads, tasks, document>>

\* refresh() called with the settings file holding s.
RefreshWith(s) ==
    /\ settings' = s
    /\ \E pauseOk, playOk \in BOOLEAN :
         LET m == RefreshResult(Main, s, pauseOk, playOk)
         IN IF m.res = "Panic"
            THEN Ended("panicked", "refresh", "Panic") /\ UNCHANGED overlayText
            ELSE /\ pipeState' = m.pipeState
                 /\ binState' = m.binState
                 /\ camcaps' = m.camcaps
                 /\ wpecaps' = m.wpecaps
                 /\ mixerSink1' = m.mixerSink1
                 /\ res' = m.res
                 /\ steps' = m.steps
                 /\ op' = "refresh" /\ thread' = "control" /\ ui' = <<>>
                 /\ UNCHANGED <<html_buffer, css_buffer, record_button,
                                record_action, audio_vumeter, handlers>>
                 /\ RefreshFrame
                 /\ UNCHANGED <<proc, busVars, lastBin, faults>>

\* App::refresh_pipeline, as the settings dialog calls it when it closes.
Refresh ==
    /\ proc = "running"
    /\ RefreshWith(LoadSettings)

\* The texts appended to the resolution combo box, by index, as characters.
ComboTexts ==
    [i \in 0..2 |-> CASE i = 0 -> <<"4", "8", "0", "P">>
                     [] i = 1 -> <<"7", "2", "0", "P">>
                     [] i = 2 -> <<"1", "0", "8", "0", "P">>]

\* video_resolution.set_active(..): the entry shown for a stored resolution.
SetActive(r) ==
    CASE r = "V480P" -> 0
      [] r = "V720P" -> 1
      [] r = "V1080P" -> 2

\* str::to_lowercase on the characters the combo texts are made of.
ToLowercase(t) == [i \in 1..Len(t) |-> IF t[i] = "P" THEN "p" ELSE t[i]]

\* impl From<Option<glib::GString>> for VideoResolution; the option is <<>>
\* or <<text>>.
VideoResolutionFrom(s) ==
    IF s = <<>> THEN "V720P"
    ELSE CASE ToLowercase(s[1]) = <<"4", "8", "0", "p">> -> "V480P"
           [] ToLowercase(s[1]) = <<"7", "2", "0", "p">> -> "V720P"
           [] ToLowercase(s[1]) = <<"1", "0", "8", "0", "p">> -> "V1080P"
           [] OTHER -> "Panic"

\* Variant: the resolution handler saves the settings and does not refresh.
ResolutionChanged_SaveOnly(r) ==
    /\ proc = "running"
    /\ r # settings.video_resolution
    /\ settings' = [settings EXCEPT !.video_resolution = r]
    /\ op' = "refresh" /\ res' = "Ok" /\ thread' = "control" /\ ui' = <<>>
    /\ steps' = <<>>
    /\ UNCHANGED appVars
    /\ UNCHANGED <<proc, pipeState, capsVars, busVars, recVars>>

\* The dialog's resolution handler: save_settings(), then refresh_pipeline(),
\* in one handler on the control thread.
ResolutionChanged(r) ==
    /\ proc = "running"
    /\ r # settings.video_resolution
    /\ RefreshWith([settings EXCEPT !.video_resolution = r])

\* The user picks entry i of the combo box: save_settings() stores the
\* resolution its text converts to, then the handler refreshes.
ComboChanged(i) ==
    /\ VideoResolutionFrom(<<ComboTexts[i]>>) # "Panic"
    /\ ResolutionChanged(VideoResolutionFrom(<<ComboTexts[i]>>))

\* The user edits the RTMP entry (or the encoder entry): save_settings()
\* stores Some(text) and the resolution the shown combo text converts to;
\* no refresh.
EntryChanged ==
    /\ proc = "running"
    /\ VideoResolutionFrom(<<ComboTexts[SetActive(settings.video_resolution)]>>)
         # "Panic"
    /\ settings' =
         [rtmp_location |-> "Some",
          video_resolution |->
            VideoResolutionFrom(<<ComboTexts[SetActive(settings.video_resolution)]>>)]
    /\ op' = "save_settings" /\ res' = "Ok" /\ thread' = "control" /\ ui' = <<>>
    /\ steps' = <<>>
    /\ UNCHANGED appVars
    /\ UNCHANGED <<proc, pipeState, capsVars, busVars, recVars>>

\* The stored destination changes between two calls: the dialog's handler of
\* the RTMP entry saves the text of the entry (save_settings() alone, no
\* refresh); the settings file may also be left without a destination.
LocationChanged(l) ==
    /\ proc = "running"
    /\ l # settings.rtmp_location
    /\ settings' = [settings EXCEPT !.rtmp_location = l]
    /\ op' = "save_settings" /\ res' = "Ok" /\ thread' = "control" /\ ui' = <<>>
    /\ steps' = <<>>
    /\ UNCHANGED appVars
    /\ UNCHANGED <<proc, pipeState, capsVars, busVars, recVars>>

\* Pipeline::start: pipeline.set_state(Playing), the result handed back.
Start ==
    /\ proc = "running"
    /\ "activate" \in handlers
    /\ \E ok \in BOOLEAN :
         LET m == PipelineSetState(Main, "Playing", ok)
         IN /\ pipeState' = m.pipeState
            /\ binState' = m.binState
            /\ res' = IF ok THEN "Ok" ELSE "ErrState"
    /\ op' = "start" /\ thread' = "control" /\ ui' = <<>>
    /\ steps' = <<>>
    /\ UNCHANGED appVars
    /\ UNCHANGED <<settings, proc, capsVars, busVars, recording_bin,
                   recording_video_pad, recording_audio_pad, lastBin, children,
                   pads, tasks, faults>>

\* Pipeline::stop: pipeline.set_state(Null), the result handed back.
Stop ==
    /\ proc = "running"
    /\ \E ok \in BOOLEAN :
         LET m == PipelineSetState(Main, "Null", ok)
         IN /\ pipeState' = m.pipeState
            /\ binState' = m.binState
            /\ res' = IF ok THEN "Ok" ELSE "ErrState"
    /\ op' = "stop" /\ thread' = "control" /\ ui' = <<>>
    /\ steps' = <<>>
    /\ UNCHANGED appVars
    /\ UNCHANGED <<settings, proc, capsVars, busVars, recording_bin,
                   recording_video_pad, recording_audio_pad, lastBin, children,
                   pads, tasks, faults>>

\* App::on_shutdown: pipeline.stop() (its result dropped) and the Pipeline is
\* dropped with the application: the graph and the slots are gone.
Shutdown ==
    /\ proc = "running"
    /\ "shutdown" \in handlers
    /\ Ended("shutdown", "shutdown", "Ok")
    /\ UNCHANGED <<settings, overlayText>>

\* ---------------------------------------------------------------- overlay
\* A markup template, as strfmt reads it: literal text and {name} placeholders.
Text(t) == [key |-> FALSE, s |-> t]
Key(name) == [key |-> TRUE, s |-> name]

Tokens ==
    {Text("<div>"), Key("css_buffer"), Key("igalia_logo"), Key("gst_logo"),
     Key("unknown_field")}

Templates == UNION {[1..n -> Tokens] : n \in 0..MaxTemplate}

Stylesheets == {"body{color:red}", "h1{margin:0}"}

\* format!("data:image/png;base64,{}", base64::encode(IGALIA_LOGO)) and the
\* same for the SVG logo.
IgaliaLogo == "data:image/png;base64,b64(igalia-logo.png)"
GstLogo == "data:image/svg+xml;base64,b64(gst-logo.svg)"

\* Variant: the map of placeholders lacks gst_logo.
OverlayVars_NoGstLogo(css) ==
    [name \in {"css_buffer", "igalia_logo"} |->
       IF name = "css_buffer" THEN css ELSE IgaliaLogo]

\* The HashMap update_overlay fills: placeholder name -> replacement text.
OverlayVars(css) ==
    [name \in {"css_buffer", "igalia_logo", "gst_logo"} |->
       CASE name = "css_buffer" -> css
         [] name = "igalia_logo" -> IgaliaLogo
         [] name = "gst_logo" -> GstLogo]

\* strfmt(template, vars): Err when the template names a key vars lacks;
\* otherwise the template with every placeholder replaced by its value (the
\* document as the sequence of its pieces, in order).
Strfmt(template, hvars) ==
    [ok |-> \A i \in 1..Len(template) :
               template[i].key => template[i].s \in DOMAIN hvars,
     data |-> [i \in 1..Len(template) |->
                 IF template[i].key /\ template[i].s \in DOMAIN hvars
                 THEN hvars[template[i].s]
                 ELSE template[i].s]]

\* include_str!("../data/index.html") and include_str!("../data/style.css"):
\* the bundled markup, by the placeholders it references, and stylesheet.
DefaultMarkup ==
    <<Text("<div>"), Key("css_buffer"), Key("igalia_logo"), Key("gst_logo")>>
DefaultStylesheet == "style.css"

\* App::update_overlay while the editor shows `editing` ("CSS" or "HTML") and
\* holds `data`: the buffer being edited is replaced by the editor's text,
\* then Pipeline::update_overlay renders both buffers; the result of strfmt
\* is unwrap()ped, so Err panics before load-bytes is emitted.
UpdateOverlay(editing, data) ==
    /\ proc = "running"
    /\ html_buffer' = IF editing = "CSS" THEN html_buffer ELSE data
    /\ css_buffer' = IF editing = "CSS" THEN data ELSE css_buffer
    /\ LET r == Strfmt(html_buffer', OverlayVars(css_buffer'))
       IN IF r.ok
          THEN /\ document' = r.data
               /\ op' = "update_overlay" /\ res' = "Ok"
               /\ thread' = "control" /\ ui' = <<>> /\ steps' = <<>>
               /\ UNCHANGED <<settings, proc, pipeState, capsVars, busVars,
                              recVars, record_button, record_action,
                              audio_vumeter, handlers>>
          ELSE Ended("panicked", "update_overlay", "Panic")
               /\ UNCHANGED settings

\* ------------------------------------------------------- the record toggle
\* The application side of a handler: the graph, the toggle, the stored
\* state of the record action and the calls made into the user interface.
AppState ==
    [g |-> Graph, record_button |-> record_button,
     record_action |-> record_action, ui |-> <<>>]

\* The change-state handler of the record action for the state Idle:
\* on_record_state_changed(Idle) calls stop_recording, then
\* action.set_state(false).
RecordIdle(a) ==
    [a EXCEPT !.g = StopRecordingResult(a.g), !.record_action = FALSE]

\* Variant: set_record_active(false) leaves the toggle as it is.
SetRecordInactive_Kept(a) == a

\* HeaderBar::set_record_active(false): toggle.set_active(false).  When that
\* changes the toggle its toggled handler runs inside the call and triggers
\* the record action with the state Idle.
SetRecordInactive(a) ==
    IF a.record_button
    THEN RecordIdle([a EXCEPT !.record_button = FALSE])
    ELSE a

\* The change-state handler for the state Recording, with the result g of
\* start_recording: on_record_state_changed(Recording) and, when it returns,
\* action.set_state(true).  On Err the error is shown non-fatal and the
\* toggle is set back.
RecordRecording(a, g) ==
    IF g.res = "Ok"
    THEN [a EXCEPT !.g = g, !.record_action = TRUE]
    ELSE LET a1 == [a EXCEPT !.g = g,
                             !.ui = <<ShowErrorDialog(FALSE,
                                        <<"Failed to start recording", g.res>>)>>]
             a2 == SetRecordInactive(a1)
         IN [a2 EXCEPT !.record_action = TRUE, !.g.res = g.res]

\* Writes the application side back to the variables.
SetApp(a) ==
    /\ SetGraph(a.g)
    /\ res' = a.g.res
    /\ ui' = a.ui
    /\ record_button' = a.record_button
    /\ record_action' = a.record_action

\* The user clicks the record toggle: the toggle changes, its toggled handler
\* triggers the record action with the new state, and the change-state
\* handler runs to its end, all on the control thread.
RecordToggled ==
    /\ proc = "running"
    /\ LET a == [AppState EXCEPT !.record_button = ~record_button]
       IN IF a.record_button
          THEN \E f \in FrameworkAnswers :
                 LET s == LoadSettings
                     g == StartRecordingResult(a.g, s, f.parseOk, f.linkV, f.linkA,
                                               f.playOk, f.reached)
                     failed == g.res \in {"ErrLinkVideo", "ErrLinkAudio", "ErrState"}
                 IN /\ (HasPublishDestination(s) /\ f.parseOk) => FreeBins(Graph) # {}
                    /\ failed => faults < MaxFaults
                    /\ IF g.res = "Panic"
                       THEN Ended("panicked", "record_toggled", "Panic")
                            /\ UNCHANGED <<settings, overlayText>>
                       ELSE /\ SetApp(RecordRecording(a, g))
                            /\ faults' = IF failed THEN faults + 1 ELSE faults
                            /\ op' = "record_toggled" /\ thread' = "control"
                            /\ UNCHANGED <<settings, proc, pipeState, capsVars,
                                           busVars, overlayText, document,
                                           audio_vumeter, handlers>>
          ELSE /\ SetApp(RecordIdle(a))
               /\ op' = "record_toggled" /\ thread' = "control"
               /\ UNCHANGED <<settings, proc, pipeState, capsVars, busVars,
                              faults, overlayText, document, audio_vumeter,
                              handlers>>

\* ---------------------------------------------------------------- startup
\* Variant: the handlers are connected whatever App::new returned.
StartupHandlers_Always(ok) == {"activate", "shutdown"}

\* The handlers App::on_startup connects: none when App::new returned Err
\* (it returns before connect_activate), otherwise activate and shutdown.
StartupHandlers(ok) == IF ok THEN {"activate", "shutdown"} ELSE {}

\* App::on_startup, with parseOk the result of gst::parse_launch in
\* Pipeline::new.  On Err (handed up by the two `?`) the error is shown as
\* fatal and on_startup returns; otherwise the App holds the Pipeline that
\* Pipeline::new built, not started, and the handlers are connected.
OnStartup ==
    /\ proc = "starting"
    /\ \E parseOk \in BOOLEAN :
         /\ handlers' = StartupHandlers(parseOk)
         /\ IF parseOk
            THEN /\ proc' = "running"
                 /\ camcaps' = ResolveNew(LoadSettings.video_resolution)
                 /\ wpecaps' = ResolveNew(LoadSettings.video_resolution)
                 /\ mixerSink1' = ResolveNew(LoadSettings.video_resolution)
                 /\ pads' = InitPads
                 /\ html_buffer' = DefaultMarkup
                 /\ css_buffer' = DefaultStylesheet
                 /\ document' = Strfmt(DefaultMarkup,
                                       OverlayVars(DefaultStylesheet)).data
                 /\ audio_vumeter' = AudioVuMeterNew
                 /\ res' = "Ok" /\ ui' = <<>>
            ELSE /\ proc' = "aborted"
                 /\ res' = "ErrParse"
                 /\ ui' = <<ShowErrorDialog(TRUE, <<"Error creating application",
                                                   "Error creating pipeline",
                                                   "ErrParse">>)>>
                 /\ UNCHANGED <<capsVars, pads, html_buffer, css_buffer, document,
                                audio_vumeter>>
    /\ op' = "startup" /\ thread' = "control" /\ steps' = <<>>
    /\ UNCHANGED <<settings, pipeState, busVars, recording_bin,
                   recording_video_pad, recording_audio_pad, lastBin, children,
                   binState, tasks, faults, record_button, record_action>>

\* ------------------------------------------------------------ specification
\* The state Pipeline::new returns: the graph built for the stored
\* resolution, not started, no recording branch, nothing on the bus.
InitWithDisplay(s, vu) ==
    /\ settings = s
    /\ proc = "running"
    /\ pipeState = "Null"
    /\ camcaps = ResolveNew(s.video_resolution)
    /\ wpecaps = ResolveNew(s.video_resolution)
    /\ mixerSink1 = ResolveNew(s.video_resolution)
    /\ recording_bin = None
    /\ recording_video_pad = None
    /\ recording_audio_pad = None
    /\ lastBin = None
    /\ children = {}
    /\ binState = [b \in BinIds |-> "none"]
    /\ pads = InitPads
    /\ tasks = [p \in TapIds |-> NoTask]
    /\ bus = <<>>
    /\ posted = 0
    /\ faults = 0
    /\ op = "new" /\ res = "Ok" /\ thread = "control" /\ ui = <<>>
    /\ steps = <<>>
    /\ html_buffer = DefaultMarkup
    /\ css_buffer = DefaultStylesheet
    /\ document = Strfmt(DefaultMarkup, OverlayVars(DefaultStylesheet)).data
    /\ record_button = FALSE
    /\ record_action = FALSE
    /\ audio_vumeter = vu
    /\ handlers = StartupHandlers(TRUE)

\* The state after App::new: the level display exists.
InitWith(s) == InitWithDisplay(s, AudioVuMeterNew)

\* VideoResolution::default()
DefaultResolution == "V720P"

\* The recording branch: the Pipeline built for the default resolution, with
\* or without a publish destination; the control thread starts the graph,
\* edits the destination, starts and stops recording, refreshes and shuts
\* down, while the streaming threads, the thread pool and the bus watch run.
Init ==
    \E l \in {"None", "Some"} :
        InitWith([rtmp_location |-> l, video_resolution |-> DefaultResolution])

Next ==
    \/ StartRecording
    \/ StopRecording
    \/ Refresh
    \/ Start
    \/ Shutdown
    \/ BusDispatch
    \/ \E l \in {"None", "Some"} : LocationChanged(l)
    \/ \E p \in TapIds : DataBegin(p)
    \/ \E p \in TapIds : DataEnd(p)
    \/ \E p \in TapIds : TaskLookup(p)
    \/ \E p \in TapIds : TaskRemove(p)

Spec == Init /\ [][Next]_vars

\* The streaming threads finish the push they are in, the thread pool runs
\* the closures queued on it, and the main loop dispatches the bus watch.
Fairness ==
    /\ \A p \in TapIds : WF_vars(DataEnd(p))
    /\ \A p \in TapIds : WF_vars(TaskLookup(p))
    /\ \A p \in TapIds : WF_vars(TaskRemove(p))
    /\ WF_vars(BusDispatch)

\* The recording branch alone, for what must eventually happen: a publish
\* destination is stored and stays, and the control thread starts the graph,
\* starts and stops recording and shuts down.
InitFair ==
    InitWith([rtmp_location |-> "Some", video_resolution |-> DefaultResolution])

NextFair ==
    \/ StartRecording
    \/ StopRecording
    \/ Start
    \/ Shutdown
    \/ BusDispatch
    \/ \E p \in TapIds : DataBegin(p)
    \/ \E p \in TapIds : DataEnd(p)
    \/ \E p \in TapIds : TaskLookup(p)
    \/ \E p \in TapIds : TaskRemove(p)

FairSpec == InitFair /\ [][NextFair]_vars /\ Fairness

\* Settings and notifications: the Pipeline built for any stored settings;
\* the settings dialog changes resolution and destination and refreshes, the
\* elements of the graph post messages and the bus watch dispatches them.
InitControl == \E s \in SettingsValues : InitWith(s)

NextControl ==
    \/ Refresh
    \/ Start
    \/ Shutdown
    \/ BusDispatch
    \/ \E r \in Resolutions : ResolutionChanged(r)
    \/ \E l \in {"None", "Some"} : LocationChanged(l)
    \/ \E msg \in EnvMessages : BusPost(msg)

ControlSpec == InitControl /\ [][NextControl]_vars

FairControlSpec == ControlSpec /\ WF_vars(BusDispatch)

\* The level element posts its samples and the bus watch delivers them; the
\* Pipeline only holds a weak reference to the level display it was
\* constructed with, whose target may be gone.
InitLevel ==
    \E vu \in {AudioVuMeterNew, [alive |-> FALSE, data |-> <<>>]} :
      InitWithDisplay([rtmp_location |-> "Some", video_resolution |-> DefaultResolution],
                      vu)

NextLevel ==
    \/ \E msg \in LevelMessages : BusPost(msg)
    \/ BusDispatch
    \/ Start
    \/ Shutdown

LevelSpec == InitLevel /\ [][NextLevel]_vars

\* Recording is started and stopped and the deferred removals run while the
\* graph posts, one at a time, messages the handler has no use for.
NextMessages ==
    \/ StartRecording
    \/ StopRecording
    \/ Start
    \/ Shutdown
    \/ \E msg \in IgnoredMessages : bus = <<>> /\ BusPost(msg)
    \/ BusDispatch
    \/ \E p \in TapIds : TaskLookup(p)
    \/ \E p \in TapIds : TaskRemove(p)

MessagesSpec == InitFair /\ [][NextMessages]_vars

\* The application: the user clicks the record toggle and edits the
\* destination, the application is activated and shut down, while the
\* streaming threads, the thread pool and the bus watch run.
NextApp ==
    \/ RecordToggled
    \/ Start
    \/ Shutdown
    \/ BusDispatch
    \/ \E l \in {"None", "Some"} : LocationChanged(l)
    \/ \E p \in TapIds : DataBegin(p)
    \/ \E p \in TapIds : DataEnd(p)
    \/ \E p \in TapIds : TaskLookup(p)
    \/ \E p \in TapIds : TaskRemove(p)

AppSpec == Init /\ [][NextApp]_vars

\* The process before App::on_startup: no graph, no application state, no
\* handler connected; only the stored settings exist.
InitStartup ==
    /\ settings \in SettingsValues
    /\ proc = "starting"
    /\ pipeState = "Null"
    /\ camcaps = <<0, 0>> /\ wpecaps = <<0, 0>> /\ mixerSink1 = <<0, 0>>
    /\ recording_bin = None
    /\ recording_video_pad = None
    /\ recording_audio_pad = None
    /\ lastBin = None
    /\ children = {}
    /\ binState = [b \in BinIds |-> "none"]
    /\ pads = [p \in PadIds |-> NewPad]
    /\ tasks = [p \in TapIds |-> NoTask]
    /\ bus = <<>>
    /\ posted = 0
    /\ faults = 0
    /\ op = "main" /\ res = "Ok" /\ thread = "control" /\ ui = <<>>
    /\ steps = <<>>
    /\ html_buffer = <<>>
    /\ css_buffer = ""
    /\ document = NoDocument
    /\ record_button = FALSE
    /\ record_action = FALSE
    /\ audio_vumeter = [alive |-> FALSE, data |-> <<>>]
    /\ handlers = {}

\* Startup and what the application can do afterwards with the graph as a
\* whole: activation, settings dialog, notifications, shutdown.
NextStartup ==
    \/ OnStartup
    \/ NextControl

StartupSpec == InitStartup /\ [][NextStartup]_vars

\* Settings against the recording branch: the Pipeline built for any stored
\* settings; the dialog changes resolution and destination between the calls
\* of start_recording, stop_recording and refresh.
NextSettings ==
    \/ StartRecording
    \/ StopRecording
    \/ Refresh
    \/ Start
    \/ Shutdown
    \/ \E r \in Resolutions : ResolutionChanged(r)
    \/ \E l \in {"None", "Some"} : LocationChanged(l)

SettingsSpec == InitControl /\ [][NextSettings]_vars

\* The settings dialog alone changes the settings: the combo box, the
\* entries and the close button, between the calls on the graph.
NextDialog ==
    \/ StartRecording
    \/ StopRecording
    \/ Start
    \/ Shutdown
    \/ Refresh
    \/ \E i \in DOMAIN ComboTexts : ComboChanged(i)
    \/ EntryChanged

DialogSpec == InitControl /\ [][NextDialog]_vars

\* The overlay: the user edits the markup or the stylesheet and presses the
\* update button, while the graph is started, refreshed and shut down.
NextOverlay ==
    \/ \E data \in Templates : UpdateOverlay("HTML", data)
    \/ \E data \in Stylesheets : UpdateOverlay("CSS", data)
    \/ Start
    \/ Refresh
    \/ Shutdown

OverlaySpec == InitFair /\ [][NextOverlay]_vars

\* The Pipeline as its caller may drive it: start and stop of the whole
\* graph in any order and any number of times, around the recording branch
\* and its deferred removals.
NextLifecycle ==
    \/ Start
    \/ Stop
    \/ StartRecording
    \/ StopRecording
    \/ \E p \in TapIds : TaskLookup(p)
    \/ \E p \in TapIds : TaskRemove(p)

LifecycleSpec == InitFair /\ [][NextLifecycle]_vars

\* The overlay against everything else: the Pipeline is constructed with a
\* destination stored, the user updates the overlay with a one-piece markup
\* or a stylesheet, and the graph is started, refreshed, recorded from,
\* notified and shut down.
InitContent ==
    /\ InitStartup
    /\ settings = [rtmp_location |-> "Some", video_resolution |-> DefaultResolution]

NextContent ==
    \/ OnStartup
    \/ \E data \in {t \in Templates : Len(t) = 1} : UpdateOverlay("HTML", data)
    \/ \E data \in Stylesheets : UpdateOverlay("CSS", data)
    \/ Start
    \/ Refresh
    \/ StartRecording
    \/ StopRecording
    \/ \E msg \in EnvMessages : bus = <<>> /\ BusPost(msg)
    \/ BusDispatch
    \/ Shutdown

ContentSpec == InitContent /\ [][NextContent]_vars

\* ------------------------------------------------------------------ claims
\* The methods the record toggle calls and the steps of the teardown.
RecordingOps == {"start_recording", "stop_recording", "data_end", "task_lookup",
                 "task_remove"}

\* stop_recording has taken bin b's two taps out of their slots: each carries
\* the idle probe or has already been handed back by it.
StopIssued(b) ==
    \A k \in Kinds : pads[<<k, b>>].probe # None \/ pads[<<k, b>>].status = "released"

TapsReleased(b) == \A k \in Kinds : pads[<<k, b>>].status = "released"

\* No teardown is under way: no idle probe is installed and no removal is queued.
NoTeardown ==
    /\ \A p \in TapIds : pads[p].probe = None
    /\ \A p \in TapIds : tasks[p].pc = "none"

FullyAttached(b) ==
    /\ b \in children
    /\ binState[b] = "Playing"
    /\ recording_bin = b
    /\ \A k \in Kinds : /\ pads[<<k, b>>].status = "requested"
                        /\ pads[<<k, b>>].peer = GhostPad(b)

FullyAbsent ==
    /\ children = {}
    /\ recording_bin = None
    /\ \A p \in TapIds : pads[p].status # "requested"

\* The display branch: the first source pad of each tee, linked to its queue.
DisplayLinked ==
    \A k \in Kinds : /\ pads[MainPad(k)].status = "requested"
                     /\ pads[MainPad(k)].peer = MainQueue

\* C1: a start_recording called while the stored settings hold no publish
\* destination returns the configuration error and changes nothing: not the
\* membership of the pipeline, not a slot, not a tap, not the run state.
C1_NoDestinationNoChange ==
    [][(op' = "start_recording" /\ settings.rtmp_location = "None")
        => /\ res' = "ErrConfig"
           /\ UNCHANGED <<settings, proc, pipeState, capsVars, busVars, recVars>>]_vars

C1_Witness ==
    /\ op = "start_recording" /\ res = "ErrConfig"
    /\ settings.rtmp_location = "None"
    /\ \E p \in TapIds : pads[p].status # "none"

\* C2 (as the claim states it, at the end of the teardown): once
\* stop_recording has taken a recording bin and its two taps, and the
\* teardown has run to its end (both taps released, no removal left queued),
\* the bin is no child of the pipeline, it is in Null, and the bin slot no
\* longer holds it.
C2_TeardownStops ==
    \A b \in BinIds :
        (/\ proc = "running"
         /\ StopIssued(b) /\ TapsReleased(b)
         /\ \A p \in TapIds : tasks[p].pc = "none")
            => /\ b \notin children
               /\ binState[b] = "Null"
               /\ recording_bin # b

\* C2 (amended): once stop_recording has taken a recording bin and its two
\* taps, eventually (the process not having ended) the bin is no child of the
\* pipeline, both taps are released and the bin slot no longer holds it; the
\* bin is then in Null unless its transition to Null failed, in which case a
\* warning has been posted.
C2_TeardownCompletes ==
    \A b \in BinIds :
        StopIssued(b) ~> \/ proc # "running"
                         \/ /\ b \notin children
                            /\ (binState[b] = "Null" \/ posted > 0)
                            /\ TapsReleased(b)
                            /\ recording_bin # b

C2_Witness ==
    \E b \in BinIds :
        /\ StopIssued(b) /\ TapsReleased(b)
        /\ b \notin children /\ recording_bin = None
        /\ binState[b] = "Playing" /\ posted > 0

\* C3: the two taps stop_recording has taken are eventually handed back to
\* their tees (the process not having ended), once each, and no tap is ever
\* handed back twice.
C3_ReleasedExactlyOnce ==
    /\ [](\A p \in TapIds : pads[p].releases <= 1)
    /\ \A b \in BinIds :
         StopIssued(b) ~> \/ proc # "running"
                          \/ \A k \in Kinds : pads[<<k, b>>].releases = 1

C3_Witness ==
    /\ recording_bin # None
    /\ \E b \in BinIds : /\ b # recording_bin
                         /\ \A k \in Kinds : pads[<<k, b>>].releases = 1

\* C4: whenever no teardown is under way (start_recording is one step), the
\* recording branch is fully attached or fully absent.
C4_AttachedOrAbsent ==
    (proc = "running" /\ NoTeardown) => (FullyAbsent \/ \E b \in BinIds : FullyAttached(b))

\* C5: a tap through which a data unit is in transit is linked to the bin.
C5_NoDisconnectInTransit ==
    \A p \in TapIds : pads[p].busy => pads[p].peer # NoPeer

\* C6: the recording operations, the idle callbacks and the deferred removals
\* leave the run state of the pipeline and the links of the display branch as
\* they are: a pipeline that was playing is playing afterwards.
C6_DisplayUntouched ==
    [][(op' \in RecordingOps)
        => /\ pipeState' = pipeState
           /\ DisplayLinked => DisplayLinked']_vars

\* C7: when start_recording returns a link error, the bin it built is no
\* child of the pipeline, is in Null, and the bin slot is empty.
C7_LinkFailureRolledBack ==
    (op = "start_recording" /\ res \in {"ErrLinkVideo", "ErrLinkAudio"})
        => /\ lastBin \notin children
           /\ binState[lastBin] = "Null"
           /\ recording_bin = None

\* C8: a stop_recording called while the bin slot is empty changes nothing.
C8_StopWithoutBranch ==
    [][(op' = "stop_recording" /\ recording_bin = None)
        => /\ res' = "Noop"
           /\ UNCHANGED <<settings, proc, pipeState, capsVars, busVars, recVars>>]_vars

C8_Witness ==
    /\ op = "stop_recording" /\ res = "Noop"
    /\ recording_video_pad # None

\* C9: when refresh() has returned, the pipeline is playing and the two caps
\* filters and the mixer's overlay pad carry the width and height of the
\* stored resolution: 640x480, 1280x720 or 1920x1080.
C9_RefreshApplies ==
    (op = "refresh" /\ proc = "running")
        => /\ pipeState = "Playing"
           /\ LET wh == CASE settings.video_resolution = "V480P" -> <<640, 480>>
                          [] settings.video_resolution = "V720P" -> <<1280, 720>>
                          [] settings.video_resolution = "V1080P" -> <<1920, 1080>>
              IN camcaps = wh /\ wpecaps = wh /\ mixerSink1 = wh

C9_Witness ==
    /\ op = "refresh" /\ proc = "running"
    /\ settings.video_resolution = "V1080P"
    /\ camcaps = <<1920, 1080>>

\* C10: every message posted on the bus, from either thread, is eventually
\* handled (the process not having ended), and the handler only ever runs on
\* the control thread.
C10_EveryMessageHandled ==
    /\ [](op = "bus_dispatch" => thread = "control")
    /\ \A n \in 1..MaxPosts :
         (posted >= n) ~> (proc # "running" \/ posted - Len(bus) >= n)

C10_Witness ==
    /\ op = "bus_dispatch" /\ res = "LevelUpdate" /\ thread = "control"
    /\ posted = 2 /\ bus = <<>>

\* C11: no step executed on a worker thread (a push through a tap, the idle
\* callback, the two steps of a deferred removal) makes a call into the user
\* interface: no dialog, no level-meter update, no record-toggle update.  Such
\* a step only acts on the taps, the membership and run state of the
\* sub-graph, the queue of deferred removals and the notification channel.
C11_NoUiOnWorker ==
    [][thread' = "worker"
        => /\ ui' = <<>>
           /\ UNCHANGED <<settings, proc, pipeState, capsVars, recording_bin,
                          recording_video_pad, recording_audio_pad, lastBin,
                          record_button, record_action>>]_vars

C11_Witness ==
    /\ thread = "worker" /\ op = "task_remove" /\ res = "StopFailed"
    /\ ui = <<>>
    /\ bus # <<>>

\* C12: when the sub-graph's transition to stopped fails in a deferred
\* removal, that step shows nothing itself and posts a warning carrying the
\* failure text on the notification channel; a warning taken from the channel
\* is shown on the control thread as a non-fatal notice with that text, never
\* as a fatal one; and while the process runs the notice is eventually shown.
C12_StopFailureSurfaced ==
    /\ [][(op' = "task_remove" /\ res' = "StopFailed")
            => /\ ui' = <<>>
               /\ bus' = Append(bus, Message("application", "warning", "",
                                             StopFailedText, ""))]_vars
    /\ [][(op' = "bus_dispatch" /\ bus # <<>>
            /\ Head(bus).kind = "application" /\ Head(bus).name = "warning")
            => /\ thread' = "control"
               /\ ui' = <<[call |-> "show_error_dialog", fatal |-> FALSE,
                           text |-> <<Head(bus).text>>]>>]_vars
    /\ (op = "task_remove" /\ res = "StopFailed")
         ~> (\/ proc # "running"
             \/ /\ op = "bus_dispatch" /\ thread = "control"
                /\ ui = <<[call |-> "show_error_dialog", fatal |-> FALSE,
                           text |-> <<StopFailedText>>]>>)

C12_Witness ==
    /\ op = "bus_dispatch" /\ thread = "control" /\ proc = "running"
    /\ ui = <<[call |-> "show_error_dialog", fatal |-> FALSE,
               text |-> <<StopFailedText>>]>>
    /\ \E b \in BinIds : b \notin children /\ binState[b] = "Playing"

\* C13: an error message taken from the notification channel is shown, on the
\* control thread, as a fatal error whose text carries the path of the source
\* element, the error text and the debug detail of that message, never as a
\* non-fatal notice; and no error message is dropped: while the process runs,
\* each one posted is eventually shown so.
C13_ErrorsAreFatal ==
    /\ [][(op' = "bus_dispatch" /\ bus # <<>> /\ Head(bus).kind = "error")
            => /\ thread' = "control"
               /\ ui' = <<[call |-> "show_error_dialog", fatal |-> TRUE,
                           text |-> <<Head(bus).src, Head(bus).text,
                                      Head(bus).debug>>]>>]_vars
    /\ \A e \in {x \in EnvMessages : x.kind = "error"} :
         (\E i \in 1..Len(bus) : bus[i] = e)
           ~> (\/ proc # "running"
               \/ /\ op = "bus_dispatch"
                  /\ ui = <<[call |-> "show_error_dialog", fatal |-> TRUE,
                             text |-> <<e.src, e.text, e.debug>>]>>)

C13_Witness ==
    /\ op = "bus_dispatch" /\ thread = "control" /\ proc = "running"
    /\ ui = <<[call |-> "show_error_dialog", fatal |-> TRUE,
               text |-> <<"/pipeline/rtmpsink", "Could not connect",
                          "rtmp handshake">>]>>
    /\ bus # <<>>

\* C14: when update_overlay has run on a markup whose placeholders are all
\* among css_buffer, igalia_logo and gst_logo, the document loaded into the
\* web renderer is the markup with every occurrence of css_buffer replaced by
\* the stylesheet text and every occurrence of the two logo placeholders by
\* the base64 data URI of that logo, the text in between kept; when the
\* markup names any other placeholder the operation fails (the process
\* panics) and no document is loaded.
C14_OverlayRendered ==
    op = "update_overlay"
      => IF \E i \in 1..Len(html_buffer) :
               /\ html_buffer[i].key
               /\ html_buffer[i].s \notin {"css_buffer", "igalia_logo", "gst_logo"}
         THEN res = "Panic" /\ proc = "panicked" /\ document = NoDocument
         ELSE /\ res = "Ok" /\ proc = "running"
              /\ Len(document) = Len(html_buffer)
              /\ \A i \in 1..Len(html_buffer) :
                   document[i] =
                     CASE html_buffer[i] = Key("css_buffer") -> css_buffer
                       [] html_buffer[i] = Key("igalia_logo") ->
                            "data:image/png;base64,b64(igalia-logo.png)"
                       [] html_buffer[i] = Key("gst_logo") ->
                            "data:image/svg+xml;base64,b64(gst-logo.svg)"
                       [] OTHER -> html_buffer[i].s

C14_Witness ==
    /\ op = "update_overlay" /\ res = "Ok"
    /\ html_buffer = <<Key("css_buffer"), Key("css_buffer")>>
    /\ css_buffer = "h1{margin:0}"
    /\ document = <<"h1{margin:0}", "h1{margin:0}">>

C16_StartFailureReverts ==
    [][(op' = "record_toggled" /\ ~record_button
        /\ res' \in {"ErrConfig", "ErrParse", "ErrLinkVideo", "ErrLinkAudio",
                      "ErrState"})
        => /\ ui' = <<[call |-> "show_error_dialog", fatal |-> FALSE,
                       text |-> <<"Failed to start recording", res'>>]>>
           /\ record_button' = FALSE]_vars

C16_Witness ==
    /\ op = "record_toggled" /\ res = "ErrState" /\ proc = "running"
    /\ ui # <<>> /\ ~ui[1].fatal
    /\ ~record_button
    /\ lastBin \in children

\* C17: when building the main graph fails, on_startup shows a fatal error
\* and returns with no application state created (no graph, no overlay
\* texts, no document) and neither the activate nor the shutdown handler
\* connected; and from then on nothing happens: the graph is never started.
C17_FailedBuildAborts ==
    /\ [][(op' = "startup" /\ res' # "Ok")
            => /\ proc' = "aborted"
               /\ Len(ui') = 1 /\ ui'[1].call = "show_error_dialog" /\ ui'[1].fatal
               /\ handlers' = {}
               /\ UNCHANGED <<pipeState, capsVars, graphVars, appVars>>]_vars
    /\ [](proc = "aborted"
            => /\ op = "startup" /\ pipeState = "Null" /\ handlers = {}
               /\ document = NoDocument
               /\ \A p \in PadIds : pads[p].status = "none")

C17_Witness ==
    /\ proc = "aborted" /\ op = "startup" /\ res = "ErrParse"
    /\ ui # <<>> /\ ui[1].fatal
    /\ settings.video_resolution = "V1080P"

\* C18: a deferred removal queued by the teardown of one recording removes and
\* stops only the sub-graph that teardown detached, the one its tap was
\* linked to, never a sub-graph a later start_recording attached: whenever
\* the removal step of the closure queued for tap <<k, b>> runs, the bin it
\* removes and stops is b.
C18_RemovesOwnBin ==
    [][\A p \in TapIds :
         (op' = "task_remove" /\ tasks[p].pc = "found" /\ tasks'[p].pc = "none")
            => tasks[p].bin = p[2]]_vars

\* C19: whenever start_recording gets as far as adding the sub-graph (a
\* destination is stored and the description parses), no sub-graph named
\* recording-bin is a member of the top-level graph, so the add does not fail
\* and start_recording does not panic.
C19_AddNeverFails ==
    [][(op' = "start_recording" /\ res' \notin {"ErrConfig", "ErrParse"})
        => (children = {} /\ res' # "Panic")]_vars

\* C20: start_recording sets the sub-graph running only after both taps are
\* linked to it and stores it in the branch slot only after that transition
\* succeeded, so in no state is the slot present while a tap of the stored
\* sub-graph is not linked to it.
C20_SlotImpliesLinked ==
    (proc = "running" /\ recording_bin # None)
        => \A k \in Kinds :
             /\ pads[<<k, recording_bin>>].status = "requested"
             /\ pads[<<k, recording_bin>>].peer = GhostPad(recording_bin)

\* C21: refresh() makes its calls in the order pause, apply, renegotiate,
\* resume: the caps of the camera and of the web renderer and the geometry of
\* the mixer pad are rewritten only while the graph is paused, the
\* reconfigure event is sent to the display sink after that, and the graph is
\* set playing last.
C21_RefreshOrder ==
    (op = "refresh" /\ proc = "running")
        => /\ [i \in 1..Len(steps) |-> steps[i][1]]
                = <<"set_state_paused", "set_caps", "send_reconfigure",
                    "set_state_playing">>
           /\ \A i \in 1..Len(steps) :
                steps[i][1] = "set_caps" => steps[i][2] = "Paused"

\* C22: no tap is lost: every tap requested from a tee and not released is
\* held in its tap slot or carries the installed idle probe that will release
\* it; and when start_recording has returned an error, no requested tap of
\* the recording branch is left.
C22_NoTapLost ==
    proc = "running"
      => /\ \A p \in TapIds :
              pads[p].status = "requested"
                => \/ pads[p].probe # None
                   \/ (p[1] = "video" /\ recording_video_pad = p[2])
                   \/ (p[1] = "audio" /\ recording_audio_pad = p[2])
         /\ (op = "start_recording" /\ res # "Ok")
              => \A p \in TapIds : pads[p].status # "requested"

\* C23: when the idle condition of a tap fires, its callback unlinks the tap
\* from the entry point of the sub-graph, then releases the tap to its tee
\* (the tap being unlinked by then), then schedules the deferred removal; the
\* removal and the stop of the sub-graph are not part of the callback, and a
\* removal is queued or running for a tap only when that tap has been released.
C23_UnlinkReleaseSchedule ==
    /\ op \in {"stop_recording", "data_end"}
         => \A p \in TapIds :
              LET sp == SelectSeq(steps, LAMBDA e : e[2] = p)
              IN \/ sp = <<>>
                 \/ /\ [i \in 1..Len(sp) |-> sp[i][1]]
                        = <<"unlink", "release_request_pad", "call_async">>
                    /\ sp[2][3] = NoPeer
    /\ \A p \in TapIds : tasks[p].pc # "none" => pads[p].status = "released"

\* The teardown of bin b has run to its end: stop_recording took its taps,
\* both idle callbacks have run and both closures they queued have finished.
TeardownDone(b) ==
    /\ proc = "running"
    /\ StopIssued(b)
    /\ \A k \in Kinds : /\ pads[<<k, b>>].probe = None
                        /\ tasks[<<k, b>>].pc = "none"

\* C24 as stated: whatever the order in which the two idle callbacks and the
\* two deferred removals ran, the teardown ends in the same state (both taps
\* released, the sub-graph no member of the graph and stopped, the slot not
\* holding it), and a probe stays installed on a tap only while that tap
\* itself is in a push, never because of the other tap.
C24_SameFinalState ==
    /\ \A b \in BinIds :
         TeardownDone(b)
           => /\ TapsReleased(b)
              /\ b \notin children
              /\ binState[b] = "Null"
              /\ recording_bin # b
    /\ \A p \in TapIds : pads[p].probe # None => pads[p].busy

\* C24, amended: the same, the sub-graph being stopped unless its transition
\* to stopped failed and a warning was posted.
C24_SameFinalStateUnlessFailed ==
    /\ \A b \in BinIds :
         TeardownDone(b)
           => /\ TapsReleased(b)
              /\ b \notin children
              /\ binState[b] = "Null" \/ posted > 0
              /\ recording_bin # b
    /\ \A p \in TapIds : pads[p].probe # None => pads[p].busy

\* The audio callback ran on the control thread inside stop_recording, the
\* video one later on its streaming thread, and both removals are over.
C24_Witness ==
    \E b \in BinIds :
        /\ TeardownDone(b) /\ binState[b] = "Null" /\ b \notin children
        /\ op = "task_lookup"
        /\ pads[<<"video", b>>].releases = 1 /\ pads[<<"audio", b>>].releases = 1


\* C25: a recording bin leaves the pipeline at most once and goes to Null at
\* most once, although two closures are queued for it: a bin that has left the
\* pipeline never is a child again and, once in Null, stays in Null (until
\* nothing refers to it any more and start_recording builds a new bin), and a closure
\* that runs on a bin another closure has removed and stopped, in whatever
\* order or overlap the two ran, changes nothing in the graph and posts nothing.
C25_RemovedAndStoppedOnce ==
    [][proc' = "running" =>
         /\ \A b \in BinIds :
              LET built == op' = "start_recording" /\ b \in FreeBins(Graph)
              IN /\ (binState[b] # "none" /\ b \notin children /\ ~built)
                    => b \notin children'
                 /\ (binState[b] = "Null" /\ b \notin children /\ ~built)
                    => binState'[b] = "Null"
         /\ \A p \in TapIds :
              (/\ op' = "task_remove"
               /\ tasks[p].pc = "found" /\ tasks'[p] = NoTask
               /\ tasks[p].bin \notin children
               /\ binState[tasks[p].bin] = "Null")
              => UNCHANGED <<children, binState, pads, bus, posted>>]_vars

\* Both closures had found the bin before either removed it, and the second
\* has now run on the bin the first removed and stopped.
C25_Witness ==
    /\ proc = "running" /\ op = "task_remove" /\ res = "Ok"
    /\ Len(steps) = 2
    /\ steps[1] = <<"remove", <<"bin", 1>>, <<FALSE, "Null">>>>
    /\ steps[2] = <<"set_state_null", <<"bin", 1>>, <<FALSE, "Null">>>>
    /\ 1 \notin children /\ binState[1] = "Null"
    /\ \A p \in TapIds : tasks[p].pc = "none"


\* The idle probe of tap p has run in the step that led to this state.
Fired(p) ==
    /\ proc = "running"
    /\ op \in {"stop_recording", "data_end"}
    /\ \E i \in 1..Len(steps) : steps[i][2] = p

\* C26: an idle probe does its teardown at most once.  A probe that is
\* installed has not released its tap yet; the run of a probe is the first and
\* only release of its tap and leaves no probe on the tap, so that no later
\* push or idle point can run it again.
C26_IdleConditionOneShot ==
    /\ [](proc = "running" =>
            \A p \in TapIds :
              pads[p].probe # None =>
                (pads[p].status = "requested" /\ pads[p].releases = 0))
    /\ [][\A p \in TapIds :
            Fired(p)' => /\ pads[p].status = "requested"
                         /\ pads'[p].status = "released"
                         /\ pads'[p].releases = 1
                         /\ pads'[p].probe = None
                         /\ Len(SelectSeq(steps', LAMBDA e : e[2] = p)) = 3]_vars

\* A probe that was installed while its tap was in a push has run at the end
\* of the push, on the streaming thread.
C26_Witness ==
    /\ op = "data_end" /\ res = "IdleProbe" /\ thread = "worker"
    /\ \E p \in TapIds :
         Fired(p) /\ pads[p].probe = None /\ pads[p].releases = 1 /\ ~pads[p].busy


\* The bin slot and the two tap slots of a graph record.
Slots(g) == <<g.recording_bin, g.recording_video_pad, g.recording_audio_pad>>

\* C27: the bin slot and the two tap slots are written on the control thread
\* only.  Every step that changes a slot is a step of the control thread, which
\* runs one operation at a time; the idle callback and the deferred removal,
\* run on any tap or bin in any reachable state and on whatever thread, leave
\* the three slots as they are.
C27_SlotsOnControlThread ==
    /\ [][Slots(Graph)' # Slots(Graph) => thread' = "control"]_vars
    /\ [](proc = "running" =>
            /\ \A p \in TapIds : \A b \in BinIds :
                 Slots(IdleCallback(Graph, p, b)) = Slots(Graph)
            /\ \A b \in BinIds : \A ok \in BOOLEAN :
                 Slots(RemoveAndStop(Graph, b, ok)) = Slots(Graph))

\* A deferred removal has run on a worker thread while the slots were in use.
C27_Witness ==
    /\ proc = "running" /\ op = "task_remove" /\ thread = "worker"
    /\ recording_bin # None
    /\ recording_video_pad # None /\ recording_audio_pad # None
    /\ recording_bin \notin children


\* C28: stop_recording returns without waiting for a tap to become idle.  It
\* can be run in every state of the running process, whatever the taps are
\* doing; when it returns, a tap that was in a push is still in that push, is
\* not released and has nothing queued, and carries the probe if it was taken
\* from its slot; and the bins are where and as they were: the removal and the
\* stop of the bin are left to the closures queued later.
C28_StopReturnsAtOnce ==
    /\ [](proc = "running" => ENABLED StopRecording)
    /\ [][(op' = "stop_recording" /\ proc' = "running") =>
            /\ children' = children /\ binState' = binState
            /\ \A p \in TapIds :
                 pads[p].busy =>
                   /\ pads'[p].busy
                   /\ pads'[p].status = pads[p].status
                   /\ tasks'[p] = tasks[p]
                   /\ (res' = "Ok" /\ p \in {<<"video", recording_video_pad>>,
                                              <<"audio", recording_audio_pad>>})
                      => pads'[p].probe = recording_bin]_vars

\* stop_recording has returned while both taps are in a push: both probes are
\* installed, nothing is released or queued, the bin is a running child.
C28_Witness ==
    /\ proc = "running" /\ op = "stop_recording" /\ res = "Ok"
    /\ \E b \in BinIds :
         /\ b \in children /\ binState[b] = "Playing"
         /\ \A k \in Kinds :
              /\ pads[<<k, b>>].busy
              /\ pads[<<k, b>>].probe = b
              /\ pads[<<k, b>>].status = "requested"
              /\ tasks[<<k, b>>].pc = "none"


\* C29: whenever the bin slot holds a bin, the video tap slot and the audio
\* tap slot hold a tap each; so stop_recording never takes the bin out of its
\* slot and then returns at an empty tap slot, before any probe is installed.
C29_BranchImpliesTaps ==
    /\ (proc = "running" /\ recording_bin # None)
         => (recording_video_pad # None /\ recording_audio_pad # None)
    /\ ~(op = "stop_recording" /\ res = "EarlyReturn")

\* stop_recording found the three slots filled and has set up the teardown of
\* both taps of the bin: the probe is installed or has run already.
C29_Witness ==
    /\ proc = "running" /\ op = "stop_recording" /\ res = "Ok"
    /\ recording_bin = None
    /\ recording_video_pad = None /\ recording_audio_pad = None
    /\ \E b \in children :
         /\ pads[<<"video", b>>].probe = b
         /\ tasks[<<"audio", b>>].pc = "queued"


\* C30: the pipeline has at most one recording bin among its children, and a
\* start_recording called while the bin slot holds a bin leaves the process
\* running, the three slots as they are, and the bin of the slot as it is: a
\* child or not, its state, its two taps.
C30_OneBranch ==
    /\ [](Cardinality(children) <= 1)
    /\ [][(op' = "start_recording" /\ recording_bin # None) =>
            /\ proc' = "running"
            /\ Slots(Graph)' = Slots(Graph)
            /\ (recording_bin \in children) = (recording_bin \in children')
            /\ binState'[recording_bin] = binState[recording_bin]
            /\ \A k \in Kinds :
                 pads'[<<k, recording_bin>>] = pads[<<k, recording_bin>>]]_vars


\* C31: when the handling of a change of the record action has returned, the
\* state stored in the action, the active state of the record toggle and the
\* presence of a bin in the bin slot agree: all three recording or all three
\* idle, also after a start_recording that returned an error.
C31_ActionToggleSlotAgree ==
    (op = "record_toggled" /\ proc = "running")
        => /\ record_action = record_button
           /\ record_button = (recording_bin # None)


\* C32: for every "level" message delivered, the rms, peak and decay arrays
\* reach the level display unchanged (same length, same order, same values)
\* and in that argument order, and the display stores them as rms, peak and
\* decay; when the level display no longer exists the sample is dropped and
\* nothing but the bus changes.
C32_LevelForwarded ==
    [][(op' = "bus_dispatch" /\ Head(bus).kind = "element"
        /\ Head(bus).name = "level")
        => LET v == Head(bus).values
               Same(out, in) == /\ Len(out) = Len(in)
                                /\ \A i \in 1..Len(in) : out[i] = in[i].f64
           IN IF audio_vumeter.alive
              THEN /\ Len(ui') = 1
                   /\ ui'[1].call = "vumeter_update"
                   /\ Same(ui'[1].values[1], v.rms)
                   /\ Same(ui'[1].values[2], v.peak)
                   /\ Same(ui'[1].values[3], v.decay)
                   /\ Len(audio_vumeter'.data) = 1
                   /\ Same(audio_vumeter'.data[1].rms, v.rms)
                   /\ Same(audio_vumeter'.data[1].peak, v.peak)
                   /\ Same(audio_vumeter'.data[1].decay, v.decay)
              ELSE /\ ui' = <<>>
                   /\ UNCHANGED <<settings, proc, pipeState, capsVars, recVars,
                                  posted, appVars>>]_vars

\* A sample of two channels at different levels has been delivered and is
\* what the level display holds.
C32_Witness ==
    /\ op = "bus_dispatch" /\ res = "LevelUpdate" /\ thread = "control"
    /\ audio_vumeter.alive
    /\ audio_vumeter.data = <<[rms |-> <<-60, -20>>, peak |-> <<-50, -10>>,
                               decay |-> <<-45, -5>>]>>


\* The messages the handler is to ignore: state changes and async-done,
\* application messages not named "warning", element messages not named
\* "level", and messages of any other type.
Ignorable(msg) ==
    \/ msg.kind \in {"state_changed", "async_done"}
    \/ msg.kind = "application" /\ msg.name # "warning"
    \/ msg.kind = "element" /\ msg.name # "level"
    \/ msg.kind \notin {"error", "application", "element", "state_changed",
                        "async_done"}

\* C33: the delivery of a state-changed or async-done message, of an
\* application message that is no "warning", of an element message that is no
\* "level" or of a message of another type makes no call into the user
\* interface and leaves the process running, the three slots, the children of
\* the pipeline, the taps, the queued removals and the run states of the
\* pipeline and of the bins as they are.
C33_IgnoredNoEffect ==
    [][(op' = "bus_dispatch" /\ Ignorable(Head(bus)))
        => /\ ui' = <<>>
           /\ proc' = "running"
           /\ UNCHANGED <<recording_bin, recording_video_pad, recording_audio_pad,
                          children, binState, pads, tasks, pipeState, capsVars,
                          audio_vumeter, record_button, record_action>>]_vars

\* The pipeline's async-done has been delivered while a branch is attached
\* and running: a snapshot was written and nothing else happened.
C33_Witness ==
    /\ proc = "running" /\ op = "bus_dispatch" /\ res = "Ignored"
    /\ steps = <<<<"debug_to_dot_file", "async-done">>>>
    /\ recording_bin # None /\ recording_bin \in children
    /\ binState[recording_bin] = "Playing"


\* C34: a refresh that returns leaves the bin slot, the two tap slots, the
\* children of the pipeline, the idle probes installed on the taps and the
\* removals queued on the thread pool as they were, whether a branch is
\* attached, absent or being torn down.
C34_RefreshKeepsBranch ==
    [][(op' = "refresh" /\ proc' = "running")
        => UNCHANGED <<recording_bin, recording_video_pad, recording_audio_pad,
                       children, pads, tasks>>]_vars

\* A refresh has returned in the middle of a teardown: the slot is empty, one
\* tap still carries its idle probe, the removal queued by the other tap is
\* pending and the bin is still a child of the pipeline.
C34_Witness ==
    /\ proc = "running" /\ op = "refresh" /\ res = "Ok"
    /\ recording_bin = None
    /\ \E b \in children :
         /\ \E p \in TapIds : p[2] = b /\ pads[p].probe # None
         /\ \E p \in TapIds : p[2] = b /\ tasks[p].pc # "none"


\* The width and height the claims give for each resolution.
Dimensions(r) ==
    CASE r = "V480P" -> <<640, 480>>
      [] r = "V720P" -> <<1280, 720>>
      [] r = "V1080P" -> <<1920, 1080>>

\* C35: between the handlers of the settings dialog the camera caps, the
\* web-renderer caps and the mixer's sink_1 pad carry the width and height of
\* the resolution stored in the settings; a pick in the combo box stores the
\* picked resolution and refreshes in the same handler, and closing the
\* dialog refreshes.
C35_GraphFollowsSettings ==
    /\ [](proc = "running" =>
            /\ camcaps = Dimensions(settings.video_resolution)
            /\ wpecaps = Dimensions(settings.video_resolution)
            /\ mixerSink1 = Dimensions(settings.video_resolution))
    /\ [][(op' = "refresh" /\ proc' = "running")
           => /\ Len(steps') = 4
              /\ settings'.video_resolution \in Resolutions]_vars

\* A handler of the dialog has refreshed the playing graph with 1080P
\* stored: the graph is at 1920x1080.
C35_Witness ==
    /\ proc = "running" /\ op = "refresh" /\ res = "Ok"
    /\ pipeState = "Playing"
    /\ settings.video_resolution = "V1080P"
    /\ camcaps = <<1920, 1080>> /\ wpecaps = <<1920, 1080>>
    /\ mixerSink1 = <<1920, 1080>>


\* C36: the document loaded into the web renderer changes only when the
\* Pipeline is constructed and on update_overlay; start, start_recording,
\* stop_recording, refresh and the message handler leave it as it is; the
\* stop of shutdown ends the process without loading anything.
C36_OverlayOnlyOnUpdate ==
    [][(document' # document /\ proc' = "running")
        => op' \in {"startup", "update_overlay"}]_vars

\* The user has loaded a document of their own and recording was started
\* afterwards; a later call on the graph or message finds it still loaded.
C36_Witness ==
    /\ proc = "running"
    /\ op \in {"refresh", "start_recording", "stop_recording", "bus_dispatch",
               "start"}
    /\ recording_bin # None
    /\ css_buffer = "h1{margin:0}"
    /\ html_buffer = <<Key("css_buffer")>>
    /\ document = <<"h1{margin:0}">>


\* C37: Pipeline::new and refresh resolve every resolution to the same width
\* and height (480p to 640x480, 720p to 1280x720, 1080p to 1920x1080), and a
\* refresh of a graph that carries the constructed geometry of the stored
\* resolution, with the settings unchanged, leaves the camera caps, the
\* web-renderer caps and the mixer's sink_1 pad at those values.
C37_SameResolution ==
    /\ [](\A r \in Resolutions :
            /\ ResolveNew(r) = Dimensions(r)
            /\ ResolveRefresh(r) = Dimensions(r))
    /\ [][(/\ op' = "refresh" /\ proc' = "running"
           /\ settings' = settings
           /\ camcaps = ResolveNew(settings.video_resolution)
           /\ wpecaps = ResolveNew(settings.video_resolution)
           /\ mixerSink1 = ResolveNew(settings.video_resolution))
          => UNCHANGED capsVars]_vars

\* A graph constructed for 480p has been refreshed with 480p still stored and
\* is at 640x480.
C37_Witness ==
    /\ proc = "running" /\ op = "refresh" /\ res = "Ok"
    /\ settings.video_resolution = "V480P"
    /\ camcaps = ResolveNew("V480P") /\ wpecaps = ResolveNew("V480P")
    /\ mixerSink1 = ResolveNew("V480P")
    /\ camcaps = <<640, 480>>


\* C38: start() on a graph that is playing and stop() on a graph that is
\* stopped change nothing: the state of the pipeline, the bin slot and the
\* two tap slots are what they were, and so are the states of the bins when
\* every child of the pipeline was already in the state asked for.
C38_StartStopIdempotent ==
    /\ [][(op' = "start" /\ pipeState = "Playing")
           => /\ pipeState' = "Playing"
              /\ Slots(Graph)' = Slots(Graph)
              /\ (\A b \in children : binState[b] = "Playing")
                    => binState' = binState]_vars
    /\ [][(op' = "stop" /\ pipeState = "Null")
           => /\ pipeState' = "Null"
              /\ Slots(Graph)' = Slots(Graph)
              /\ (\A b \in children : binState[b] = "Null")
                    => binState' = binState]_vars

\* start() has returned Ok on a graph that was playing with a branch
\* attached: graph and branch are playing, the slot holds the branch.
C38_Witness ==
    /\ proc = "running" /\ op = "start" /\ res = "Ok"
    /\ pipeState = "Playing"
    /\ recording_bin # None /\ recording_bin \in children
    /\ binState[recording_bin] = "Playing"
    /\ recording_video_pad # None /\ recording_audio_pad # None

====
